---- MODULE Spec2Model ----
(***************************************************************************)
(* Model of TestUtil, the connection-lifecycle and readiness-probing       *)
(* helper of the loopback-connector-composer integration tests             *)
(* (packages/loopback-connector-composer/integration-test/testutil.js).    *)
(*                                                                         *)
(* The module-level variables adminConnection and client, the objects they *)
(* refer to, the promise chains of setUp / waitForPorts / waitForPort,     *)
(* getClient, tearDown and resetBusinessNetwork are state; every callback  *)
(* of a promise chain, socket event or timer is one action.                *)
(***************************************************************************)
EXTENDS Integers, Sequences, FiniteSets, TLC

\* ---------------------------------------------------------------- bounds
MaxSetUpCalls == 2      \* setUp calls that may be started (they may overlap)
MaxGetClientCalls == 2  \* getClient calls that may be started (they may overlap)
MaxTearDownCalls == 1   \* tearDown calls that may be started
MaxAttempts == 32       \* cap on the attempt index of testConnect
MaxEnvLen == 2          \* longest CONCERTO_PORT_WAIT_SECS string considered
MaxLingering == 1       \* connected sockets and stray retry chains alive at once

\* ------------------------------------------------------ program constants
DefaultWaitTime == 30
Ports == <<7050, 7051, 7052, 7053, 7054>>
ProfileName == "concerto-systests"
HomeDir == "~"
KeyValStore == <<HomeDir, ".concerto-credentials", "concerto-systests">>

VARIABLES
    env,              \* process environment: karma, npm_lifecycle_event, CONCERTO_PORT_WAIT_SECS
    adminConnection,  \* module variable: 0 (undefined) or an index into admins
    client,           \* module variable: 0 (undefined) or an index into clients
    admins,           \* the AdminConnection objects created so far
    clients,          \* the BusinessNetworkConnection objects created so far
    call,             \* the setUp calls: position in the promise chain
    gc,               \* the getClient calls
    td,               \* the tearDown calls
    lastReset,        \* what the last resetBusinessNetwork call did
    profiles,         \* the connection profile store: records [name, options]
    dirs,             \* the directories that exist on disk
    stray             \* sockets and retry chains of waitForPort calls already resolved

vars == <<env, adminConnection, client, admins, clients, call, gc, td,
          lastReset, profiles, dirs, stray>>

\* ------------------------------------------------------------ environment
EnvChars == {"0", "2", "s", "-"}
Digits == {"0", "1", "2", "3", "4", "5", "6", "7", "8", "9"}

\* Strings are modelled as sequences of one-character strings; <<>> stands
\* for an unset (or empty) variable, which JavaScript treats as falsy.
EnvStrings == UNION {[1..n -> EnvChars] : n \in 0..MaxEnvLen}

DigitVal(ch) ==
    CASE ch = "0" -> 0 [] ch = "1" -> 1 [] ch = "2" -> 2 [] ch = "3" -> 3
      [] ch = "4" -> 4 [] ch = "5" -> 5 [] ch = "6" -> 6 [] ch = "7" -> 7
      [] ch = "8" -> 8 [] ch = "9" -> 9

\* Length of the longest prefix of s made of decimal digits.
RECURSIVE DigitPrefixLen(_)
DigitPrefixLen(s) ==
    IF s = <<>> \/ Head(s) \notin Digits THEN 0 ELSE 1 + DigitPrefixLen(Tail(s))

RECURSIVE DecimalValue(_, _)
DecimalValue(s, n) ==
    IF n = 0 THEN 0 ELSE 10 * DecimalValue(s, n - 1) + DigitVal(s[n])

\* parseInt(string): an optional sign, then the longest run of decimal
\* digits; NaN when there is no digit.  The result is [nan, val].
ParseInt(s) ==
    LET neg == s # <<>> /\ Head(s) = "-"
        rest == IF neg THEN Tail(s) ELSE s
        n == DigitPrefixLen(rest)
    IN IF n = 0 THEN [nan |-> TRUE, val |-> 0]
       ELSE [nan |-> FALSE,
             val |-> IF neg THEN 0 - DecimalValue(rest, n) ELSE DecimalValue(rest, n)]

\* JavaScript's a > b on numbers: false whenever an operand is NaN.
NumGt(a, b) == ~a.nan /\ ~b.nan /\ a.val > b.val

Num(n) == [nan |-> FALSE, val |-> n]

IsWeb == env.karma

IsEmbedded == env.npm_lifecycle_event = "systest:embedded"

IsHyperledgerFabricNoEmbedded == ~IsWeb

IsHyperledgerFabric == ~IsWeb /\ ~IsEmbedded

WaitTimeNoOverride == Num(DefaultWaitTime)

WaitTime ==
    IF env.CONCERTO_PORT_WAIT_SECS # <<>>
    THEN ParseInt(env.CONCERTO_PORT_WAIT_SECS)
    ELSE Num(DefaultWaitTime)

GiveUpOffByOne(count) == NumGt(Num(count + 1), WaitTime)

\* if (count > waitTime)
GiveUp(count) == NumGt(Num(count), WaitTime)

\* ------------------------------------------------------------ setUp calls
IdleCall == [gate |-> "idle", port |-> 0, count |-> 0, confirmed |-> {},
             slept |-> FALSE, error |-> [code |-> "none"],
             profile |-> "none", connect |-> "none", conn |-> 0, connOn |-> 0,
             reason |-> "none"]

Calls == 1..MaxSetUpCalls

\* The connection being waited on by testConnect(n) for the p-th port.
TestConnect(c, p, n) ==
    call' = [call EXCEPT ![c].gate = "probe", ![c].port = p, ![c].count = n]

\* setUp() is called: waitForPorts() either returns a resolved promise or
\* starts waitForPort('localhost', 7050), whose executor runs testConnect(0).
SetUp(c) ==
    /\ call[c].gate = "idle"
    /\ IF c = 1 THEN TRUE ELSE call[c - 1].gate # "idle"
    /\ IF IsHyperledgerFabric
       THEN TestConnect(c, 1, 0)
       ELSE call' = [call EXCEPT ![c].gate = "ok"]
    /\ UNCHANGED <<env, adminConnection, client, admins, clients, gc, td,
                   lastReset, profiles, dirs, stray>>

\* The error a socket emits when its connection attempt fails: Node's
\* system error, which names the address and port it tried.
SocketErrorValue(p) ==
    [code |-> "ECONNREFUSED", syscall |-> "connect", address |-> "127.0.0.1",
     port |-> Ports[p]]

\* The socket of the current attempt emits 'error'.
SocketError(c) ==
    /\ call[c].gate = "probe"
    /\ IF GiveUp(call[c].count)
       THEN call' = [call EXCEPT ![c].gate = "failed", ![c].reason = "port",
                                 ![c].error = SocketErrorValue(call[c].port)]
       ELSE call' = [call EXCEPT ![c].gate = "wait"]
    /\ UNCHANGED <<env, adminConnection, client, admins, clients, gc, td,
                   lastReset, profiles, dirs, stray>>

\* count + 1.  With a NaN budget the comparison count > waitTime is false for
\* every count, so the counter is held at MaxAttempts instead of stopping the
\* retries there.
NextCount(n) == IF n < MaxAttempts THEN n + 1 ELSE n

\* The one-second timer set by the error handler fires: testConnect(count + 1).
RetryTimer(c) ==
    /\ call[c].gate = "wait"
    /\ call[c].count < MaxAttempts \/ WaitTime.nan
    /\ TestConnect(c, call[c].port, NextCount(call[c].count))
    /\ UNCHANGED <<env, adminConnection, client, admins, clients, gc, td,
                   lastReset, profiles, dirs, stray>>

\* The socket of the current attempt emits 'connect': waitForPort resolves
\* and the next link of the waitForPorts chain runs, which is waitForPort on
\* the next port or, after the last port, sleep(5000).
ConnectHandlerSkipsLastPort(c) ==
    IF call[c].port < Len(Ports) - 1
    THEN call' = [call EXCEPT ![c].gate = "probe", ![c].port = @ + 1,
                              ![c].count = 0,
                              ![c].confirmed = @ \cup {call[c].port}]
    ELSE call' = [call EXCEPT ![c].gate = "grace",
                              ![c].confirmed = @ \cup {call[c].port}]

\* The connect handler: s.end(), resolve(), and the callback chained on this
\* waitForPort in waitForPorts.
ConnectHandler(c) ==
    IF call[c].port < Len(Ports)
    THEN call' = [call EXCEPT ![c].gate = "probe", ![c].port = @ + 1,
                              ![c].count = 0,
                              ![c].confirmed = @ \cup {call[c].port}]
    ELSE call' = [call EXCEPT ![c].gate = "grace",
                              ![c].confirmed = @ \cup {call[c].port}]

\* The socket connects and, after s.end(), closes without another event.
SocketConnect(c) ==
    /\ call[c].gate = "probe"
    /\ ConnectHandler(c)
    /\ UNCHANGED <<env, adminConnection, client, admins, clients, gc, td,
                   lastReset, profiles, dirs, stray>>

\* sleep(5000) resolves, and with it waitForPorts().
SleepDone(c) ==
    /\ call[c].gate = "grace"
    /\ call' = [call EXCEPT ![c].gate = "ok", ![c].slept = TRUE]
    /\ UNCHANGED <<env, adminConnection, client, admins, clients, gc, td,
                   lastReset, profiles, dirs, stray>>

\* ------------------------------------- sockets that outlive their attempt
\* The handlers of a socket stay registered after 'connect': s.end() only
\* half-closes it, and until it is closed it may still emit 'error'.
\* The socket connects and stays open for a while.
SocketConnectLingering(c) ==
    /\ call[c].gate = "probe"
    /\ Cardinality(stray) < MaxLingering
    /\ ConnectHandler(c)
    /\ stray' = stray \cup {[call |-> c, port |-> call[c].port,
                              count |-> call[c].count, st |-> "open"]}
    /\ UNCHANGED <<env, adminConnection, client, admins, clients, gc, td,
                   lastReset, profiles, dirs>>

\* A connected socket is closed.
SocketClose(s) ==
    /\ s \in stray
    /\ s.st = "open"
    /\ stray' = stray \ {s}
    /\ UNCHANGED <<env, adminConnection, client, admins, clients, call, gc, td,
                   lastReset, profiles, dirs>>

\* The error handler of testConnect(count) runs for a waitForPort promise
\* that is already resolved: reject() has no effect, the timer is still set.
StrayErrorHandler(s) ==
    IF GiveUp(s.count)
    THEN stray' = stray \ {s}
    ELSE stray' = (stray \ {s}) \cup {[s EXCEPT !.st = "wait"]}

\* A socket that has connected emits 'error' afterwards.
LateSocketError(s) ==
    /\ s \in stray
    /\ s.st = "open"
    /\ StrayErrorHandler(s)
    /\ UNCHANGED <<env, adminConnection, client, admins, clients, call, gc, td,
                   lastReset, profiles, dirs>>

\* The timer of a stray chain fires: testConnect(count + 1) opens a socket.
StrayRetryTimer(s) ==
    /\ s \in stray
    /\ s.st = "wait"
    /\ s.count < MaxAttempts \/ WaitTime.nan
    /\ stray' = (stray \ {s}) \cup
                    {[s EXCEPT !.st = "probe", !.count = NextCount(s.count)]}
    /\ UNCHANGED <<env, adminConnection, client, admins, clients, call, gc, td,
                   lastReset, profiles, dirs>>

\* The socket of a stray attempt emits 'error'.
StraySocketError(s) ==
    /\ s \in stray
    /\ s.st = "probe"
    /\ StrayErrorHandler(s)
    /\ UNCHANGED <<env, adminConnection, client, admins, clients, call, gc, td,
                   lastReset, profiles, dirs>>

\* The socket of a stray attempt emits 'connect': s.end(), and resolve()
\* has no effect.
StraySocketConnect(s) ==
    /\ s \in stray
    /\ s.st = "probe"
    /\ stray' = (stray \ {s}) \cup {[s EXCEPT !.st = "open"]}
    /\ UNCHANGED <<env, adminConnection, client, admins, clients, call, gc, td,
                   lastReset, profiles, dirs>>

\* Where a setUp call stands.
SetUpFailed(c) ==
    call[c].gate = "failed" \/ call[c].profile = "failed" \/ call[c].connect = "failed"

SetUpSucceeded(c) == call[c].connect = "ok"

SetUpInProgress(c) ==
    call[c].gate # "idle" /\ ~SetUpFailed(c) /\ ~SetUpSucceeded(c)

\* testConnect has been run for the p-th port by call c.
ProbeStarted(c, p) == p <= call[c].port

\* ------------------------------------------------- setUp: profile, connect
NewAdminConnection == [connected |-> FALSE, connects |-> 0]

\* adminOptions as built by the first callback of setUp.
AdminOptions ==
    IF IsWeb THEN [type |-> "web"]
    ELSE IF IsEmbedded THEN [type |-> "embedded"]
    ELSE [type |-> "hlf",
          keyValStore |-> KeyValStore,
          membershipServicesURL |-> "grpc://localhost:7054",
          peerURL |-> "grpc://localhost:7051",
          eventHubURL |-> "grpc://localhost:7053"]

\* The directories mkdirp creates for a path: the path and all its parents.
PathAndParents(path) == {SubSeq(path, 1, n) : n \in 1..Len(path)}

MkdirThrowsIfExists(path) == path \in dirs

\* mkdirp.sync does not throw when the directory already exists.
MkdirpSyncThrows(path) == FALSE

\* AdminConnection.createProfile saves the options under the profile name,
\* replacing a record of the same name.
SaveProfile(store, name, options) ==
    {r \in store : r.name # name} \cup {[name |-> name, options |-> options]}

GateResolvedOrPending(c) == call[c].gate \in {"ok", "probe", "wait", "grace"}

\* waitForPorts() has resolved, so the first callback of setUp may run.
GateResolved(c) == call[c].gate = "ok"

\* createProfile() has resolved, so the second callback of setUp may run.
ProfileCreated(c) == call[c].profile = "ok"

\* First callback of setUp: a new AdminConnection is stored in the module
\* variable, the options are built (creating the credential store directory
\* in Hyperledger Fabric mode) and createProfile is invoked.
SetUpCreateProfile(c) ==
    /\ GateResolved(c)
    /\ call[c].profile = "none"
    /\ admins' = Append(admins, NewAdminConnection)
    /\ adminConnection' = Len(admins) + 1
    /\ IF ~IsWeb /\ ~IsEmbedded /\ MkdirpSyncThrows(KeyValStore)
       THEN /\ call' = [call EXCEPT ![c].profile = "failed", ![c].reason = "EEXIST"]
            /\ UNCHANGED dirs
       ELSE /\ call' = [call EXCEPT ![c].profile = "invoked",
                                    ![c].conn = Len(admins) + 1]
            /\ dirs' = IF ~IsWeb /\ ~IsEmbedded
                       THEN dirs \cup PathAndParents(KeyValStore)
                       ELSE dirs
    /\ UNCHANGED <<env, client, clients, gc, td, lastReset, profiles, stray>>

CreateProfileDoneIgnoringFailure(c, ok) ==
    /\ call[c].profile = "invoked"
    /\ profiles' = IF ok THEN SaveProfile(profiles, ProfileName, AdminOptions)
                   ELSE profiles
    /\ call' = [call EXCEPT ![c].profile = IF ok THEN "ok" ELSE "failed",
                            ![c].connect = "invoked",
                            ![c].connOn = adminConnection]
    /\ admins' = [admins EXCEPT ![adminConnection].connects = @ + 1]
    /\ UNCHANGED <<env, adminConnection, client, clients, gc, td, lastReset, dirs,
                   stray>>

\* createProfile() settles.  When it resolves the profile is in the store
\* and the second callback of setUp invokes connect() on whatever the module
\* variable adminConnection refers to at that moment.
CreateProfileDone(c, ok) ==
    /\ call[c].profile = "invoked"
    /\ IF ok
       THEN /\ profiles' = SaveProfile(profiles, ProfileName, AdminOptions)
            /\ call' = [call EXCEPT ![c].profile = "ok", ![c].connect = "invoked",
                                    ![c].connOn = adminConnection]
            /\ admins' = [admins EXCEPT ![adminConnection].connects = @ + 1]
       ELSE /\ call' = [call EXCEPT ![c].profile = "failed",
                                    ![c].reason = "createProfile"]
            /\ UNCHANGED <<profiles, admins>>
    /\ UNCHANGED <<env, adminConnection, client, clients, gc, td, lastReset, dirs, stray>>

\* connect() settles; when it resolves the last callback resolves setUp().
ConnectDone(c, ok) ==
    /\ call[c].connect = "invoked"
    /\ IF ok
       THEN /\ call' = [call EXCEPT ![c].connect = "ok"]
            /\ admins' = [admins EXCEPT ![call[c].connOn].connected = TRUE]
       ELSE /\ call' = [call EXCEPT ![c].connect = "failed", ![c].reason = "connect"]
            /\ UNCHANGED admins
    /\ UNCHANGED <<env, adminConnection, client, clients, gc, td, lastReset,
                   profiles, dirs, stray>>

\* ---------------------------------------------------------------- tearDown
\* tearDown(): throws when adminConnection is not set, otherwise invokes
\* disconnect() on it.
TearDown ==
    /\ Len(td) < MaxTearDownCalls
    /\ td' = Append(td, IF adminConnection = 0
                        THEN [pc |-> "threw", on |-> 0]
                        ELSE [pc |-> "disconnecting", on |-> adminConnection])
    /\ UNCHANGED <<env, adminConnection, client, admins, clients, call, gc,
                   lastReset, profiles, dirs, stray>>

\* disconnect() settles, and with it the promise tearDown() returned.
DisconnectDone(t, ok) ==
    /\ t \in DOMAIN td
    /\ td[t].pc = "disconnecting"
    /\ IF ok
       THEN /\ td' = [td EXCEPT ![t].pc = "resolved"]
            /\ admins' = [admins EXCEPT ![td[t].on].connected = FALSE]
       ELSE /\ td' = [td EXCEPT ![t].pc = "rejected"]
            /\ UNCHANGED admins
    /\ UNCHANGED <<env, adminConnection, client, clients, call, gc, lastReset,
                   profiles, dirs, stray>>

\* getAdmin(): throws when adminConnection is not set, otherwise returns it.
GetAdmin == [throws |-> adminConnection = 0, value |-> adminConnection]

\* --------------------------------------------------------------- getClient
NewBusinessNetworkConnection == [connected |-> FALSE, securityContext |-> FALSE]

\* getClient(network): a new BusinessNetworkConnection is stored in the
\* module variable client and connect() is invoked on it.
GetClient ==
    /\ Len(gc) < MaxGetClientCalls
    /\ clients' = Append(clients, NewBusinessNetworkConnection)
    /\ client' = Len(clients) + 1
    /\ gc' = Append(gc, [pc |-> "connecting", created |-> Len(clients) + 1,
                         returned |-> 0])
    /\ UNCHANGED <<env, adminConnection, admins, call, td, lastReset, profiles, dirs, stray>>

\* The connect() of a getClient call settles.  When it resolves the handle
\* holds a security context and the callback returns the module variable
\* client.
ClientConnectDone(g, ok) ==
    /\ g \in DOMAIN gc
    /\ gc[g].pc = "connecting"
    /\ IF ok
       THEN /\ clients' = [clients EXCEPT ![gc[g].created] =
                               [connected |-> TRUE, securityContext |-> TRUE]]
            /\ gc' = [gc EXCEPT ![g].pc = "resolved", ![g].returned = client]
       ELSE /\ gc' = [gc EXCEPT ![g].pc = "rejected"]
            /\ UNCHANGED clients
    /\ UNCHANGED <<env, adminConnection, client, admins, call, td, lastReset,
                   profiles, dirs, stray>>

\* ---------------------------------------------------- resetBusinessNetwork
NoReset == [hadClient |-> FALSE, hadContext |-> FALSE, invocations |-> 0,
            outcome |-> "none", result |-> "none"]

SecurityContextUnchecked == FALSE

\* let securityContext = client.securityContext; if (!securityContext) ...
NoSecurityContext == ~clients[client].securityContext

\* resetBusinessNetwork(): resolves at once without a client or without its
\* security context, otherwise returns the promise of one invokeChainCode
\* call, which resolves or rejects.
ResetBusinessNetwork(outcome) ==
    /\ lastReset' =
          IF client = 0
          THEN [hadClient |-> FALSE, hadContext |-> FALSE, invocations |-> 0,
                outcome |-> "none", result |-> "resolved"]
          ELSE IF NoSecurityContext
          THEN [hadClient |-> TRUE, hadContext |-> clients[client].securityContext,
                invocations |-> 0, outcome |-> "none", result |-> "resolved"]
          ELSE [hadClient |-> TRUE, hadContext |-> clients[client].securityContext,
                invocations |-> 1, outcome |-> outcome, result |-> outcome]
    /\ UNCHANGED <<env, adminConnection, client, admins, clients, call, gc, td,
                   profiles, dirs, stray>>

\* ----------------------------------------------------------- specification
Envs(waits) ==
    [karma : BOOLEAN,
     npm_lifecycle_event : {"systest:embedded", "systest:hlf"},
     CONCERTO_PORT_WAIT_SECS : waits]

InitWith(waits) ==
    /\ env \in Envs(waits)
    /\ adminConnection = 0
    /\ client = 0
    /\ admins = <<>>
    /\ clients = <<>>
    /\ call = [c \in Calls |-> IdleCall]
    /\ gc = <<>>
    /\ td = <<>>
    /\ lastReset = NoReset
    /\ profiles = {}
    /\ stray = {}
    /\ dirs \in {{<<HomeDir>>}, {<<HomeDir>>} \cup PathAndParents(KeyValStore)}

\* The whole helper, with short readiness budgets.
ShortWaits == {<<"0">>}

Init == InitWith(ShortWaits)

Next ==
    \/ \E c \in Calls : SetUp(c)
    \/ \E c \in Calls : SocketError(c)
    \/ \E c \in Calls : RetryTimer(c)
    \/ \E c \in Calls : SocketConnect(c)
    \/ \E c \in Calls : SleepDone(c)
    \/ \E c \in Calls : SetUpCreateProfile(c)
    \/ \E c \in Calls, ok \in BOOLEAN : CreateProfileDone(c, ok)
    \/ \E c \in Calls, ok \in BOOLEAN : ConnectDone(c, ok)
    \/ TearDown
    \/ \E t \in 1..MaxTearDownCalls, ok \in BOOLEAN : DisconnectDone(t, ok)
    \/ GetClient
    \/ \E g \in 1..MaxGetClientCalls, ok \in BOOLEAN : ClientConnectDone(g, ok)
    \/ \E outcome \in {"resolved", "rejected"} : ResetBusinessNetwork(outcome)

Spec == Init /\ [][Next]_vars

\* The readiness gate of one setUp call, for every value of the override.
InitGate == InitWith(EnvStrings)

NextGate ==
    \/ SetUp(1)
    \/ SocketError(1)
    \/ RetryTimer(1)
    \/ SocketConnect(1)
    \/ SleepDone(1)

SpecGate == InitGate /\ [][NextGate]_vars

\* The same, with every socket event and timer eventually delivered.
SpecGateFair ==
    /\ InitGate
    /\ [][NextGate]_vars
    /\ WF_vars(SocketError(1) \/ SocketConnect(1))
    /\ WF_vars(RetryTimer(1))
    /\ WF_vars(SleepDone(1))

\* The readiness gate of one setUp call with sockets that may emit 'error'
\* after they have connected.
NextLate ==
    \/ NextGate
    \/ SocketConnectLingering(1)
    \/ \E s \in stray : SocketClose(s)
    \/ \E s \in stray : LateSocketError(s)
    \/ \E s \in stray : StrayRetryTimer(s)
    \/ \E s \in stray : StraySocketError(s)
    \/ \E s \in stray : StraySocketConnect(s)

LateWaits == {<<"0">>, <<"2">>}

InitLate == InitWith(LateWaits)

SpecLate == InitLate /\ [][NextLate]_vars

\* The setUp calls and tearDown alone: getClient and resetBusinessNetwork
\* read and write none of the state these operations use.
NextSetUp ==
    \/ \E c \in Calls : SetUp(c)
    \/ \E c \in Calls : SocketError(c)
    \/ \E c \in Calls : RetryTimer(c)
    \/ \E c \in Calls : SocketConnect(c)
    \/ \E c \in Calls : SleepDone(c)
    \/ \E c \in Calls : SetUpCreateProfile(c)
    \/ \E c \in Calls, ok \in BOOLEAN : CreateProfileDone(c, ok)
    \/ \E c \in Calls, ok \in BOOLEAN : ConnectDone(c, ok)
    \/ TearDown
    \/ \E t \in 1..MaxTearDownCalls, ok \in BOOLEAN : DisconnectDone(t, ok)

SpecSetUp == Init /\ [][NextSetUp]_vars

\* getClient and resetBusinessNetwork alone: they depend on no setUp.
NextClient ==
    \/ GetClient
    \/ \E g \in 1..MaxGetClientCalls, ok \in BOOLEAN : ClientConnectDone(g, ok)
    \/ \E outcome \in {"resolved", "rejected"} : ResetBusinessNetwork(outcome)

SpecClient == Init /\ [][NextClient]_vars

\* ------------------------------------------------------------------ claims
\* The session of the specification is Connected when a setUp call has
\* resolved and no tearDown has resolved.
SessionConnected ==
    /\ \E c \in Calls : SetUpSucceeded(c)
    /\ \A t \in DOMAIN td : td[t].pc # "resolved"

\* C1: once a setUp call has failed, with no setUp call in progress and none
\* ever succeeded, no admin handle is held: getAdmin throws.
C1_FailedSetUpLeavesNoSession ==
    ( /\ \E c \in Calls : SetUpFailed(c)
      /\ \A c \in Calls : ~SetUpInProgress(c) /\ ~SetUpSucceeded(c) )
    => GetAdmin.throws

\* C2: a tearDown invoked while no setUp call has ever resolved throws and
\* invokes disconnect on no connection.
C2_TearDownBeforeSuccessThrows ==
    [][ (Len(td') > Len(td) /\ \A c \in Calls : ~SetUpSucceeded(c))
        => td'[Len(td')].pc = "threw" ]_vars

\* C3: getClient creates a client handle and starts its connect only when
\* the session is Connected.
C3_GetClientOnlyWhenConnected ==
    [][ Len(gc') > Len(gc) => SessionConnected ]_vars

\* C4: in every setUp call createProfile is invoked only after the readiness
\* gate has resolved, connect only after createProfile has resolved, and a
\* failed step is followed by no later step.
C4_StepsInOrder ==
    \A c \in Calls :
        /\ call[c].profile # "none" => call[c].gate = "ok"
        /\ call[c].connect # "none" => call[c].profile = "ok"
        /\ call[c].gate \notin {"ok"} =>
               call[c].profile = "none" /\ call[c].connect = "none" /\ call[c].conn = 0
        /\ call[c].profile \notin {"ok"} => call[c].connect = "none"

\* C4 witness: a Hyperledger Fabric setUp went through all three steps.
C4_Witness ==
    /\ IsHyperledgerFabric
    /\ \E c \in Calls : call[c].port = Len(Ports) /\ SetUpSucceeded(c)

\* C5: while the readiness gate of a call is probing, an attempt has been
\* started on every one of the five endpoints.
C5_AllEndpointsProbedFromStart ==
    \A c \in Calls :
        call[c].gate \in {"probe", "wait"} =>
            \A p \in 1..Len(Ports) : ProbeStarted(c, p)

\* The budget W of claim C6: 30 without an override, otherwise the override.
C6_Budget ==
    IF env.CONCERTO_PORT_WAIT_SECS = <<>>
    THEN Num(DefaultWaitTime)
    ELSE ParseInt(env.CONCERTO_PORT_WAIT_SECS)

\* C6: for a budget of W >= 0 seconds, waitForPort rejects on the attempt
\* made between W-1 and W+1 intervals after the first one, and no attempt is
\* made later than that.
C6_RejectsWithinOneIntervalOfBudget ==
    (~C6_Budget.nan /\ C6_Budget.val >= 0) =>
        \A c \in Calls :
            /\ call[c].gate = "failed" =>
                   /\ call[c].count >= C6_Budget.val - 1
                   /\ call[c].count <= C6_Budget.val + 1
            /\ call[c].gate \in {"probe", "wait"} =>
                   call[c].count <= C6_Budget.val + 1

\* C6 witness: with the default budget an endpoint was given up on at the
\* attempt that follows the thirtieth retry interval.
C6_Witness ==
    /\ env.CONCERTO_PORT_WAIT_SECS = <<>>
    /\ call[1].gate = "failed"
    /\ call[1].count = DefaultWaitTime + 1

\* C7: in Web or Embedded mode no setUp call ever probes a port or sleeps
\* through the grace period.
C7_NoProbesOutsideFabric ==
    (env.karma \/ env.npm_lifecycle_event = "systest:embedded") =>
        \A c \in Calls : call[c].port = 0 /\ call[c].gate \in {"idle", "ok"}

\* C7 witness: an Embedded setUp has invoked createProfile.
C7_Witness ==
    /\ ~env.karma
    /\ env.npm_lifecycle_event = "systest:embedded"
    /\ \E c \in Calls : call[c].profile = "invoked"

\* C8: when a tearDown resolves, no admin connection and no client handle
\* is connected any more.
C8_TearDownReleasesEverything ==
    [][ \A t \in DOMAIN td :
            (td[t].pc = "disconnecting" /\ td'[t].pc = "resolved") =>
                /\ \A k \in DOMAIN clients' : ~clients'[k].connected
                /\ \A a \in DOMAIN admins' : ~admins'[a].connected ]_vars

C10_ResetInvokesWheneverClientExists ==
    (lastReset.result # "none" /\ lastReset.hadClient) => lastReset.invocations = 1

\* C10 amended: resetBusinessNetwork resolves without invoking anything when
\* there is no client handle or the handle has no security context; otherwise
\* it invokes the reset exactly once and settles as that invocation did.
C10_ResetInvokesOnlyWithSecurityContext ==
    lastReset.result # "none" =>
        IF lastReset.hadClient /\ lastReset.hadContext
        THEN lastReset.invocations = 1 /\ lastReset.result = lastReset.outcome
        ELSE lastReset.invocations = 0 /\ lastReset.result = "resolved"

\* C10 witness: a reset invoked through a connected handle was rejected.
C10_Witness ==
    /\ lastReset.hadClient
    /\ lastReset.hadContext
    /\ lastReset.result = "rejected"

\* C11: the error a timed-out readiness wait rejects with names the host and
\* port of the endpoint that never became reachable and the time waited.
C11_TimeoutErrorNamesEndpointAndElapsed ==
    \A c \in Calls :
        call[c].gate = "failed" =>
            /\ {"address", "port"} \subseteq DOMAIN call[c].error
            /\ call[c].error.port = Ports[call[c].port]
            /\ \E f \in {"elapsed", "waited", "waitTime", "count"} :
                   f \in DOMAIN call[c].error

\* C12: a setUp call has resolved only if, in that call, the readiness gate
\* resolved (in Hyperledger Fabric mode after all five ports and the grace
\* sleep), createProfile resolved and connect was invoked and resolved.
C12_SuccessNeedsAllThreeSteps ==
    \A c \in Calls :
        SetUpSucceeded(c) =>
            /\ call[c].gate = "ok"
            /\ IsHyperledgerFabric =>
                   call[c].confirmed = 1..Len(Ports) /\ call[c].slept
            /\ call[c].profile = "ok"
            /\ \E r \in profiles : r.name = ProfileName
            /\ call[c].connOn \in DOMAIN admins
            /\ admins[call[c].connOn].connects >= 1

\* C12 witness: one setUp call has resolved and another has failed.
C12_Witness ==
    \E c, d \in Calls : SetUpSucceeded(c) /\ SetUpFailed(d)

\* C13: in Hyperledger Fabric mode the readiness gate resolves only after a
\* connection to each of the ports 7050..7054 has succeeded and the grace
\* sleep has run; while a port is unconfirmed the gate is pending, and an
\* endpoint over its budget is never retried but rejects the gate.
C13_GateResolvesAfterAllPortsAndGrace ==
    IsHyperledgerFabric =>
        \A c \in Calls :
            /\ call[c].gate = "ok" =>
                   /\ {Ports[p] : p \in call[c].confirmed} =
                          {7050, 7051, 7052, 7053, 7054}
                   /\ call[c].slept
            /\ call[c].gate = "grace" =>
                   call[c].confirmed = 1..Len(Ports) /\ ~call[c].slept
            /\ call[c].gate \in {"probe", "wait", "failed"} =>
                   /\ call[c].confirmed = 1..(call[c].port - 1)
                   /\ ~call[c].slept
            /\ call[c].gate = "wait" => ~GiveUp(call[c].count)
            /\ call[c].gate = "failed" => GiveUp(call[c].count)

\* C13 witness: the gate has resolved while a socket or retry chain of one
\* of its waitForPort calls is still alive.
C13_Witness ==
    /\ IsHyperledgerFabric
    /\ call[1].gate = "ok"
    /\ call[1].slept
    /\ stray # {}

\* C14: once the readiness gate of a call has failed, nothing of that call
\* moves any more (no grace sleep, createProfile or connect) and no probe
\* attempt is started for any of its endpoints.
C14_NothingStartsAfterGateFailure ==
    [][ \A c \in Calls :
            call[c].gate = "failed" =>
                /\ call'[c] = call[c]
                /\ \A s \in stray' :
                       (s.call = c /\ s.st = "probe") => s \in stray ]_vars

\* C20: a waitForPort promise resolved by a connect is followed by no
\* further attempt: a socket that has connected never schedules or starts
\* another testConnect.
C20_NoAttemptAfterResolve ==
    \A s \in stray : s.st = "open"

\* C15: with a numeric budget W, a failed attempt whose index is at most W
\* does not reject but sets the timer, and the timer starts exactly the
\* attempt with the next index on the same port; so the attempts with index
\* 0..W are all made unless one connects.
C15_FailuresWithinBudgetAreRetried ==
    [][ \A c \in Calls :
            ~C6_Budget.nan =>
                /\ ( /\ call[c].gate = "probe"
                     /\ call[c].count <= C6_Budget.val
                     /\ call'[c].gate \in {"wait", "failed"} )
                   => ( /\ call'[c].gate = "wait"
                        /\ call'[c].count = call[c].count
                        /\ call'[c].port = call[c].port )
                /\ (call[c].gate = "wait" /\ call'[c] # call[c])
                   => ( /\ call'[c].gate = "probe"
                        /\ call'[c].count = call[c].count + 1
                        /\ call'[c].port = call[c].port ) ]_vars

\* C15 witness: with the default budget the failed attempt with index 30 has
\* set the timer for attempt 31.
C15_Witness ==
    /\ env.CONCERTO_PORT_WAIT_SECS = <<>>
    /\ call[1].gate = "wait"
    /\ call[1].count = DefaultWaitTime

\* C16: at every moment at most one admin connection and at most one client
\* handle created by this module is connected.
C16_AtMostOneConnectedHandleOfEachKind ==
    /\ Cardinality({a \in DOMAIN admins : admins[a].connected}) <= 1
    /\ Cardinality({k \in DOMAIN clients : clients[k].connected}) <= 1

\* C17: a getClient call that has resolved returned the handle it created
\* itself, and that handle is connected.
C17_GetClientReturnsItsOwnHandle ==
    \A g \in DOMAIN gc :
        gc[g].pc = "resolved" =>
            /\ gc[g].returned = gc[g].created
            /\ clients[gc[g].returned].securityContext

\* C18: a setUp call invokes connect on the admin connection it created and
\* invoked createProfile on, no admin connection has connect invoked on it
\* twice, and when two calls have resolved getAdmin returns a connected
\* connection (as long as no tearDown has been started).
C18_OverlappingSetUpsKeepTheirConnections ==
    /\ \A c \in Calls : call[c].connect # "none" => call[c].connOn = call[c].conn
    /\ \A a \in DOMAIN admins : admins[a].connects <= 1
    /\ ((\A c \in 1..2 : SetUpSucceeded(c)) /\ td = <<>>) =>
           (~GetAdmin.throws /\ admins[GetAdmin.value].connected)

\* C19: every waitForPort of the readiness gate terminates: a port being
\* probed is eventually connected to or given up on.
C19_WaitForPortTerminates ==
    \A p \in 1..Len(Ports) :
        (call[1].port = p /\ call[1].gate \in {"probe", "wait"})
            ~> ~(call[1].port = p /\ call[1].gate \in {"probe", "wait"})

====
